---- MODULE Spec2Model ----
(***************************************************************************)
(* Conway's Game of Life (conway.cxx): the class Conway<char> as a state   *)
(* machine.  Every Conway object is one index of the per-engine variables; *)
(* update() is modelled at the granularity of its loop body (one cell per  *)
(* step), the constructor and randomInitialization() as single steps.      *)
(***************************************************************************)
EXTENDS Integers, Sequences, FiniteSets, TLC

\* ------------------------------------------------------------------ bounds
MaxDim == 3          \* largest width / height argument of the general model
MaxCells == 9        \* largest number of cells of a grid of the general model
MaxSparse == 1       \* largest sparseness argument
MaxSteps == 2        \* update() calls explored after a (re)seed, general model
MaxBlockDim == 5     \* largest width / height of the still-life model
MaxBlinkerDim == 5   \* largest width / height of the blinker model
MaxPatternSteps == 4 \* update() calls explored in the still-life and blinker models
MaxPairDim == 2      \* largest width / height of the two-engine model
MaxPairSteps == 2    \* update() calls explored per engine in the two-engine model

\* width, height, sparseness: the arguments the engine is driven with;
\* gen: the values gen() returns, in call order, from a freshly constructed
\*      std::default_random_engine() (the same on every call of
\*      randomInitialization, which constructs the generator anew);
\* frames: how many update() calls the driver makes before it reseeds or stops.
VARIABLES width, height, sparseness, gen, frames

\* The members of each Conway object, the position of its update() loop and
\* the locals of the last loop body executed.
VARIABLES pc, gridWidth, gridHeight, newGrid, oldGrid, i, j,
          idx, nIdx, isAlive, numLiveNeighbors

\* History: the grid newGrid held (and fullGrid() returned) when update() was
\* entered, the values passed to writeGrid() in the current/last update(), the
\* number of update() calls completed since the last randomInitialization(),
\* the last completed operation, whether randomInitialization() has run.
VARIABLES before, written, steps, lastOp, seeded

\* firstGrid: the grid the first randomInitialization() of the engine produced;
\* view: the content of the grid fullGrid() handed to its last caller, and
\* viewed: whether it was handed out since the engine last changed (the
\* reference is good until the next call that writes the grids).
VARIABLES firstGrid, view, viewed

\* The driving loop of main: its position, the pending SDL events, the value
\* the last pollEvents() returned, the engine and display calls made since.
VARIABLES mpc, queue, signal, frameOps

inputs == <<width, height, sparseness, gen, frames>>
locals == <<idx, nIdx, isAlive, numLiveNeighbors>>
reads == <<view, viewed>>
mainvars == <<mpc, queue, signal, frameOps>>
vars == <<width, height, sparseness, gen, frames,
          pc, gridWidth, gridHeight, newGrid, oldGrid, i, j,
          idx, nIdx, isAlive, numLiveNeighbors,
          before, written, steps, lastOp, seeded,
          firstGrid, view, viewed, mpc, queue, signal, frameOps>>

Engines == DOMAIN pc

\* ------------------------------------------------------------- data model
\* Coord is std::tuple<short, short>: an int stored into it is narrowed.
ToShort(n) == ((n + 32768) % 65536) - 32768

\* The neighbour search coordinates, in the order the constructor pushes them.
coords == << <<0, 1>>, <<0, -1>>, <<1, 0>>, <<-1, 0>>,
             <<1, 1>>, <<-1, -1>>, <<1, -1>>, <<-1, 1>> >>

\* std::vector<std::vector<T>>(w, std::vector<T>(h, 0))
ZeroGrid_ones(w, h) == [x \in 0..(w - 1) |-> [y \in 0..(h - 1) |-> 1]]

ZeroGrid(w, h) == [x \in 0..(w - 1) |-> [y \in 0..(h - 1) |-> 0]]

NoGrid == ZeroGrid(0, 0)

Cells(w, h) == IF w > 0 /\ h > 0 THEN w * h ELSE 0

\* The values of one gen() call that are told apart: std::uniform_int_distribution
\* <>(0, s) yields an integer of 0..s, and line 68 only tests it against 0, so
\* the nonzero values are represented by the largest one, s.
Draws(s) == {0, s}

CellSet(w, h) == (0..(w - 1)) \X (0..(h - 1))

\* What an out-of-range operator[] may produce: a byte that compares equal to
\* 1, a byte that does not, or a memory fault (Fault).
Fault == -1
OutOfRangeRead == {0, 1, Fault}

InRange(e, cc) ==
    /\ cc[1] \in 0..(gridWidth[e] - 1)
    /\ cc[2] \in 0..(gridHeight[e] - 1)

\* ------------------------------------------------------------ operations
\* Faulty variant of fullGrid: hands out the buffer update() reads from.
fullGrid_oldGrid(e) == oldGrid[e]

fullGrid(e) == newGrid[e]

verifyCoordBounds(cc, w, h) ==
    LET x == cc[1]
        y == cc[2]
        nx == IF x < 0 THEN ToShort(w - 1 + x)
              ELSE IF x >= w THEN ToShort(x % w)
              ELSE x
        ny == IF y < 0 THEN ToShort(h - 1 + y)
              ELSE IF y >= h THEN ToShort(y % h)
              ELSE y
    IN  <<nx, ny>>

\* readGrid: the set of values the read may yield (one value when in range).
readGrid(e, cc) ==
    IF InRange(e, cc) THEN {oldGrid[e][cc[1]][cc[2]]} ELSE OutOfRangeRead

writeGrid(e, cc, val) ==
    /\ newGrid' = [newGrid EXCEPT ![e][cc[1]][cc[2]] = val]
    /\ UNCHANGED oldGrid

\* Faulty variant of NextCell: a live cell survives with two neighbours only.
NextCell_noSurvive3(alive, n) ==
    IF alive # 0 /\ n = 2 THEN 1
    ELSE IF alive = 0 /\ n = 3 THEN 1
    ELSE 0

\* Faulty variant of NextCell: no birth.
NextCell_noDeath(alive, n) ==
    IF alive # 0 THEN 1
    ELSE IF alive = 0 /\ n = 3 THEN 1
    ELSE 0

NextCell_noBirth(alive, n) ==
    IF alive # 0 /\ (n = 2 \/ n = 3) THEN 1 ELSE 0

\* The if / else-if chain of update(): the value handed to writeGrid.
NextCell(alive, n) ==
    IF alive # 0 /\ (n = 2 \/ n = 3) THEN 1
    ELSE IF alive = 0 /\ n = 3 THEN 1
    ELSE IF alive # 0 THEN 0
    ELSE 0

\* The 8 normalized neighbour coordinates of cell (x, y), in coords order.
NeighbourIdx(x, y, w, h) ==
    [k \in 1..8 |->
        verifyCoordBounds(<<ToShort(x + coords[k][1]), ToShort(y + coords[k][2])>>, w, h)]

\* The values numLiveNeighbors can have after the 8 neighbour reads at the
\* coordinates n: the in-range reads that yield 1, plus any number of the
\* out-of-range reads; Fault when an out-of-range read can fault.
NeighbourCounts(e, n) ==
    LET oob == {k \in 1..8 : ~InRange(e, n[k])}
        live == {k \in (1..8) \ oob : readGrid(e, n[k]) = {1}}
    IN  {Cardinality(live) + c : c \in 0..Cardinality(oob)}
            \cup (IF oob = {} THEN {} ELSE {Fault})

\* Faulty variant of RandomGrid: the else branch is missing, so a cell whose
\* draw is not 0 keeps its previous value.
RandomGrid_noElse(g, w, h) ==
    [x \in 0..(w - 1) |-> [y \in 0..(h - 1) |->
        IF gen[x * h + y + 1] = 0 THEN 1 ELSE g[x][y]]]

\* The grid the loops of randomInitialization leave in a buffer that held g.
RandomGrid(g, w, h) ==
    [x \in 0..(w - 1) |-> [y \in 0..(h - 1) |->
        IF gen[x * h + y + 1] = 0 THEN 1 ELSE 0]]

\* --------------------------------------------------------------- actions
\* The program is single-threaded: a member function is entered only when no
\* other call is in progress, and nothing runs after a memory fault.
CanCall == \A o \in Engines : pc[o] \notin {"update", "crashed"}

Construct(e) ==
    /\ CanCall
    /\ pc[e] = "start"
    /\ IF width < 0 \/ height < 0
       THEN \* the vector constructor throws: no object exists
            /\ pc' = [pc EXCEPT ![e] = "failed"]
            /\ UNCHANGED <<gridWidth, gridHeight, newGrid, oldGrid, lastOp>>
       ELSE /\ pc' = [pc EXCEPT ![e] = "idle"]
            /\ gridWidth' = [gridWidth EXCEPT ![e] = width]
            /\ gridHeight' = [gridHeight EXCEPT ![e] = height]
            /\ newGrid' = [newGrid EXCEPT ![e] = ZeroGrid(width, height)]
            /\ oldGrid' = [oldGrid EXCEPT ![e] = ZeroGrid(width, height)]
            /\ lastOp' = [lastOp EXCEPT ![e] = "construct"]
    /\ UNCHANGED <<inputs, i, j, locals, before, written, steps, seeded,
                   firstGrid, reads>>

\* Faulty variant of randomInitialization: the generator outlives the call, so
\* a later call goes on in the stream instead of starting it again.
randomInitialization_keepsGenerator(e) ==
    /\ CanCall
    /\ pc[e] = "idle"
    /\ LET w == gridWidth[e]
           h == gridHeight[e]
           grid == [x \in 0..(w - 1) |-> [y \in 0..(h - 1) |->
                       IF gen[IF seeded[e] THEN ((x * h + y + 1) % (w * h)) + 1
                                           ELSE x * h + y + 1] = 0
                       THEN 1 ELSE 0]]
       IN  /\ newGrid' = [newGrid EXCEPT ![e] = grid]
           /\ oldGrid' = [oldGrid EXCEPT ![e] = grid]
    /\ steps' = [steps EXCEPT ![e] = 0]
    /\ lastOp' = [lastOp EXCEPT ![e] = "randomize"]
    /\ seeded' = [seeded EXCEPT ![e] = TRUE]
    /\ firstGrid' = [firstGrid EXCEPT ![e] = IF seeded[e] THEN @ ELSE newGrid'[e]]
    /\ view' = [view EXCEPT ![e] = NoGrid]
    /\ viewed' = [viewed EXCEPT ![e] = FALSE]
    /\ UNCHANGED <<inputs, pc, gridWidth, gridHeight, i, j, locals, before, written>>

randomInitialization(e) ==
    /\ CanCall
    /\ pc[e] = "idle"
    /\ newGrid' = [newGrid EXCEPT ![e] = RandomGrid(@, gridWidth[e], gridHeight[e])]
    /\ oldGrid' = [oldGrid EXCEPT ![e] = RandomGrid(@, gridWidth[e], gridHeight[e])]
    /\ steps' = [steps EXCEPT ![e] = 0]
    /\ lastOp' = [lastOp EXCEPT ![e] = "randomize"]
    /\ seeded' = [seeded EXCEPT ![e] = TRUE]
    /\ firstGrid' = [firstGrid EXCEPT ![e] = IF seeded[e] THEN @ ELSE newGrid'[e]]
    /\ view' = [view EXCEPT ![e] = NoGrid]
    /\ viewed' = [viewed EXCEPT ![e] = FALSE]
    /\ UNCHANGED <<inputs, pc, gridWidth, gridHeight, i, j, locals, before, written>>

\* update(), entry: the swap and the loop initialisation.
UpdateBegin_noSwap(e) ==
    /\ CanCall
    /\ pc[e] = "idle"
    /\ steps[e] < frames
    /\ pc' = [pc EXCEPT ![e] = "update"]
    /\ before' = [before EXCEPT ![e] = newGrid[e]]
    /\ i' = [i EXCEPT ![e] = 0]
    /\ j' = [j EXCEPT ![e] = 0]
    /\ written' = [written EXCEPT ![e] = <<>>]
    /\ view' = [view EXCEPT ![e] = NoGrid]
    /\ viewed' = [viewed EXCEPT ![e] = FALSE]
    /\ UNCHANGED <<inputs, gridWidth, gridHeight, newGrid, oldGrid, locals, steps,
                   lastOp, seeded, firstGrid>>

UpdateBegin(e) ==
    /\ CanCall
    /\ pc[e] = "idle"
    /\ steps[e] < frames
    /\ pc' = [pc EXCEPT ![e] = "update"]
    /\ before' = [before EXCEPT ![e] = newGrid[e]]
    /\ oldGrid' = [oldGrid EXCEPT ![e] = newGrid[e]]
    /\ newGrid' = [newGrid EXCEPT ![e] = oldGrid[e]]
    /\ i' = [i EXCEPT ![e] = 0]
    /\ j' = [j EXCEPT ![e] = 0]
    /\ written' = [written EXCEPT ![e] = <<>>]
    /\ view' = [view EXCEPT ![e] = NoGrid]
    /\ viewed' = [viewed EXCEPT ![e] = FALSE]
    /\ UNCHANGED <<inputs, gridWidth, gridHeight, locals, steps, lastOp, seeded,
                   firstGrid>>

\* update(), one execution of the inner loop body and the loop increments.
UpdateCell(e) ==
    /\ pc[e] = "update"
    /\ i[e] < gridWidth[e]
    /\ j[e] < gridHeight[e]
    /\ LET cur == <<ToShort(i[e]), ToShort(j[e])>>
           n == NeighbourIdx(i[e], j[e], gridWidth[e], gridHeight[e])
       IN  \E a \in readGrid(e, cur) : \E cnt \in NeighbourCounts(e, n) :
             IF a = Fault \/ cnt = Fault
             THEN \* the process dies: its objects are gone
                  /\ pc' = [o \in Engines |-> "crashed"]
                  /\ newGrid' = [o \in Engines |-> NoGrid]
                  /\ oldGrid' = [o \in Engines |-> NoGrid]
                  /\ i' = [o \in Engines |-> 0]
                  /\ j' = [o \in Engines |-> 0]
                  /\ written' = [o \in Engines |-> <<>>]
                  /\ UNCHANGED locals
             ELSE LET val == NextCell(a, cnt)
                  IN  /\ writeGrid(e, cur, val)
                      /\ idx' = [idx EXCEPT ![e] = cur]
                      /\ nIdx' = [nIdx EXCEPT ![e] = n]
                      /\ isAlive' = [isAlive EXCEPT ![e] = a]
                      /\ numLiveNeighbors' = [numLiveNeighbors EXCEPT ![e] = cnt]
                      /\ written' = [written EXCEPT ![e] =
                            [c \in (DOMAIN @) \cup {cur} |->
                                IF c = cur THEN val ELSE @[c]]]
                      /\ IF j[e] + 1 < gridHeight[e]
                         THEN /\ j' = [j EXCEPT ![e] = @ + 1]
                              /\ i' = i
                         ELSE /\ j' = [j EXCEPT ![e] = 0]
                              /\ i' = [i EXCEPT ![e] = @ + 1]
                      /\ pc' = pc
    /\ UNCHANGED <<inputs, gridWidth, gridHeight, before, steps, lastOp, seeded,
                   firstGrid, reads>>

\* update(), return: the outer loop has run out (or the grid has no cell).
UpdateEnd(e) ==
    /\ pc[e] = "update"
    /\ i[e] >= gridWidth[e] \/ gridHeight[e] <= 0
    /\ pc' = [pc EXCEPT ![e] = "idle"]
    /\ steps' = [steps EXCEPT ![e] = @ + 1]
    /\ lastOp' = [lastOp EXCEPT ![e] = "update"]
    /\ UNCHANGED <<inputs, gridWidth, gridHeight, newGrid, oldGrid, i, j,
                   locals, before, written, seeded, firstGrid, reads>>

\* Faulty variant of drawGrid: reading promotes the other buffer.
drawGrid_advances(e) ==
    /\ CanCall
    /\ pc[e] = "idle"
    /\ view' = [view EXCEPT ![e] = fullGrid(e)]
    /\ viewed' = [viewed EXCEPT ![e] = TRUE]
    /\ newGrid' = [newGrid EXCEPT ![e] = oldGrid[e]]
    /\ oldGrid' = [oldGrid EXCEPT ![e] = newGrid[e]]
    /\ UNCHANGED <<inputs, pc, gridWidth, gridHeight, i, j, locals,
                   before, written, steps, lastOp, seeded, firstGrid>>

\* drawGrid(conway.fullGrid(), ...): the caller obtains the reference fullGrid()
\* returns and reads every cell of it.
drawGrid(e) ==
    /\ CanCall
    /\ pc[e] = "idle"
    /\ view' = [view EXCEPT ![e] = fullGrid(e)]
    /\ viewed' = [viewed EXCEPT ![e] = TRUE]
    /\ UNCHANGED <<inputs, pc, gridWidth, gridHeight, newGrid, oldGrid, i, j, locals,
                   before, written, steps, lastOp, seeded, firstGrid>>

\* The engine's member functions and its reader, called in any order.
Next ==
    \/ \E e \in Engines : Construct(e) /\ UNCHANGED mainvars
    \/ \E e \in Engines : randomInitialization(e) /\ UNCHANGED mainvars
    \/ \E e \in Engines : UpdateBegin(e) /\ UNCHANGED mainvars
    \/ \E e \in Engines : UpdateCell(e) /\ UNCHANGED mainvars
    \/ \E e \in Engines : UpdateEnd(e) /\ UNCHANGED mainvars
    \/ \E e \in Engines : drawGrid(e) /\ UNCHANGED mainvars

\* ------------------------------------------------------- specifications
\* The state before any constructor has run, for the engines E and the inputs.
EngineInit(E, w, h, s, g, f) ==
    /\ frames = f
    /\ width = w
    /\ height = h
    /\ sparseness = s
    /\ gen = g
    /\ pc = [e \in E |-> "start"]
    /\ gridWidth = [e \in E |-> 0]
    /\ gridHeight = [e \in E |-> 0]
    /\ newGrid = [e \in E |-> NoGrid]
    /\ oldGrid = [e \in E |-> NoGrid]
    /\ i = [e \in E |-> 0]
    /\ j = [e \in E |-> 0]
    /\ idx = [e \in E |-> <<0, 0>>]
    /\ nIdx = [e \in E |-> <<>>]
    /\ isAlive = [e \in E |-> 0]
    /\ numLiveNeighbors = [e \in E |-> 0]
    /\ before = [e \in E |-> NoGrid]
    /\ written = [e \in E |-> <<>>]
    /\ steps = [e \in E |-> 0]
    /\ lastOp = [e \in E |-> "none"]
    /\ seeded = [e \in E |-> FALSE]
    /\ firstGrid = [e \in E |-> NoGrid]
    /\ view = [e \in E |-> NoGrid]
    /\ viewed = [e \in E |-> FALSE]

\* The engines called directly: no driving loop, no event.
InitWith(E, w, h, s, g, f) ==
    /\ EngineInit(E, w, h, s, g, f)
    /\ mpc = "off"
    /\ queue = <<>>
    /\ signal = "none"
    /\ frameOps = <<>>

\* One engine, any dimension arguments from -1 up (at most MaxCells cells),
\* any sparseness, any stream the generator can produce for it.
Init ==
    \E w \in -1..MaxDim, h \in -1..MaxDim, s \in 0..MaxSparse :
        /\ Cells(w, h) <= MaxCells
        /\ \E g \in [1..Cells(w, h) -> Draws(s)] : InitWith({1}, w, h, s, g, MaxSteps)

Spec == Init /\ [][Next]_vars

\* ------------------------------------------------- patterns and references
\* The stream of draws that makes randomInitialization produce the grid g.
StreamOf(g, w, h, s) ==
    [n \in 1..(w * h) |-> IF g[(n - 1) \div h][(n - 1) % h] = 1 THEN 0 ELSE s]

\* The grid randomInitialization is specified to produce from gen.
SeedGrid(w, h) ==
    [x \in 0..(w - 1) |-> [y \in 0..(h - 1) |->
        IF gen[x * h + y + 1] = 0 THEN 1 ELSE 0]]

GridOfCells(live, w, h) ==
    [x \in 0..(w - 1) |-> [y \in 0..(h - 1) |-> IF <<x, y>> \in live THEN 1 ELSE 0]]

\* A 2x2 block whose low corner is (bx, by).
BlockCells(bx, by) == {<<bx, by>>, <<bx + 1, by>>, <<bx, by + 1>>, <<bx + 1, by + 1>>}

\* Three collinear cells centred on (cx, cy): along x ("h") or along y ("v").
BlinkerCells(cx, cy, o) ==
    IF o = "h" THEN {<<cx - 1, cy>>, <<cx, cy>>, <<cx + 1, cy>>}
    ELSE {<<cx, cy - 1>>, <<cx, cy>>, <<cx, cy + 1>>}

Perpendicular(o) == IF o = "h" THEN "v" ELSE "h"

\* Conway's Game of Life on a torus: the next generation of grid g.
TorusNeighbours(g, x, y, w, h) ==
    Cardinality({k \in 1..8 : g[(x + coords[k][1]) % w][(y + coords[k][2]) % h] = 1})

TorusLife(g, w, h) ==
    [x \in 0..(w - 1) |-> [y \in 0..(h - 1) |->
        LET n == TorusNeighbours(g, x, y, w, h)
        IN  IF (g[x][y] = 1 /\ (n = 2 \/ n = 3)) \/ (g[x][y] = 0 /\ n = 3)
            THEN 1 ELSE 0]]

\* The still-life model: one engine on a grid of 4..MaxBlockDim per side, the
\* generator's stream seeding one 2x2 block off the border rows and columns.
InitBlock ==
    \E w \in 4..MaxBlockDim, h \in 4..MaxBlockDim :
        \E bx \in 1..(w - 3), by \in 1..(h - 3) :
            InitWith({1}, w, h, 1, StreamOf(GridOfCells(BlockCells(bx, by), w, h), w, h, 1),
                     MaxPatternSteps)

SpecBlock == InitBlock /\ [][Next]_vars

\* The blinker model: one engine on a grid of 5..MaxBlinkerDim per side, the
\* stream seeding a three-cell line whose centre is >= 2 cells from every edge.
InitBlinker ==
    \E w \in 5..MaxBlinkerDim, h \in 5..MaxBlinkerDim :
        \E cx \in 2..(w - 3), cy \in 2..(h - 3), o \in {"h", "v"} :
            InitWith({1}, w, h, 1, StreamOf(GridOfCells(BlinkerCells(cx, cy, o), w, h), w, h, 1),
                     MaxPatternSteps)

SpecBlinker == InitBlinker /\ [][Next]_vars

\* The two-engine model: two engines constructed with the same dimensions and
\* drawing from the same stream.
InitPair ==
    \E w \in 1..MaxPairDim, h \in 1..MaxPairDim, s \in 0..MaxSparse :
        \E g \in [1..Cells(w, h) -> Draws(s)] : InitWith({1, 2}, w, h, s, g, MaxPairSteps)

SpecPair == InitPair /\ [][Next]_vars

\* ------------------------------------------------------------------ claims
\* Engine e has completed an update() and is between calls, on a grid with
\* at least one cell.
StepDone(e) ==
    /\ pc[e] = "idle"
    /\ lastOp[e] = "update"
    /\ gridWidth[e] >= 1
    /\ gridHeight[e] >= 1

\* C1: one step() produces exactly the next generation of Conway's Game of
\* Life on a torus: after a completed update(), fullGrid() is the torus
\* successor (true modular wrap on both axes) of the grid shown before it.
C1_StepIsTorusLife ==
    \A e \in Engines :
        StepDone(e) => fullGrid(e) = TorusLife(before[e], gridWidth[e], gridHeight[e])

\* C1 fails without any out-of-range read as well: the same statement on the
\* grids with both dimensions >= 2 is violated too (3x3, column 2 alive).
C1_FromTwoByTwo ==
    \A e \in Engines :
        (StepDone(e) /\ gridWidth[e] >= 2 /\ gridHeight[e] >= 2) =>
            fullGrid(e) = TorusLife(before[e], gridWidth[e], gridHeight[e])

\* C2: verifyCoordBounds wraps toroidally every coordinate an offset of
\* magnitude <= 1 produces: the k-th normalized neighbour coordinate of the
\* cell idx is ((x + dx) mod width, (y + dy) mod height).
C2_WrapIsToroidal ==
    \A e \in Engines :
        nIdx[e] # <<>> =>
            \A k \in 1..8 :
                nIdx[e][k] = <<(idx[e][1] + coords[k][1]) % gridWidth[e],
                               (idx[e][2] + coords[k][2]) % gridHeight[e]>>

\* C3: during one step() every read is taken from the read-source buffer and
\* every write goes to the other buffer: while update() runs and after it,
\* the read source still is the grid shown before the step, each value
\* written is the rule applied to that grid's values at coordinates inside
\* it, and the write target holds exactly the values written.
C3_ReadsFromSourceWritesToTarget ==
    \A e \in Engines :
        (pc[e] = "update" \/ StepDone(e)) =>
            /\ oldGrid[e] = before[e]
            /\ \A c \in DOMAIN written[e] :
                LET n == NeighbourIdx(c[1], c[2], gridWidth[e], gridHeight[e])
                IN  /\ \A k \in 1..8 : InRange(e, n[k])
                    /\ written[e][c] =
                         NextCell(before[e][c[1]][c[2]],
                                  Cardinality({k \in 1..8 : before[e][n[k][1]][n[k][2]] = 1}))
                    /\ newGrid[e][c[1]][c[2]] = written[e][c]

\* C3 on the grids where no neighbour coordinate leaves the buffer (both
\* dimensions >= 2): the buffer discipline itself holds there.
C3_HoldsFromTwoByTwo ==
    \A e \in Engines :
        (gridWidth[e] >= 2 /\ gridHeight[e] >= 2 /\ (pc[e] = "update" \/ StepDone(e))) =>
            /\ oldGrid[e] = before[e]
            /\ \A c \in DOMAIN written[e] :
                LET n == NeighbourIdx(c[1], c[2], gridWidth[e], gridHeight[e])
                IN  /\ \A k \in 1..8 : InRange(e, n[k])
                    /\ written[e][c] =
                         NextCell(before[e][c[1]][c[2]],
                                  Cardinality({k \in 1..8 : before[e][n[k][1]][n[k][2]] = 1}))
                    /\ newGrid[e][c[1]][c[2]] = written[e][c]

\* C4: between calls fullGrid() returns the grid the last operation produced:
\* after update(), cell for cell the values update() handed to writeGrid (so
\* not the read source whenever the generation changed); after
\* randomInitialization(), the grid the draws determine.
C4_FullGridIsLastProduced ==
    \A e \in Engines :
        pc[e] = "idle" =>
            /\ lastOp[e] = "update" =>
                /\ DOMAIN written[e] = CellSet(gridWidth[e], gridHeight[e])
                /\ \A c \in DOMAIN written[e] : fullGrid(e)[c[1]][c[2]] = written[e][c]
                /\ (\E c \in DOMAIN written[e] : written[e][c] # before[e][c[1]][c[2]])
                      => fullGrid(e) # before[e]
            /\ lastOp[e] = "randomize" =>
                fullGrid(e) = SeedGrid(gridWidth[e], gridHeight[e])

\* C4 witness: a second update() has completed and changed the generation.
C4_Witness ==
    /\ StepDone(1)
    /\ steps[1] >= 2
    /\ \E c \in DOMAIN written[1] : written[1][c] # before[1][c[1]][c[2]]

\* C5: no engine with a non-positive width or height ever exists, so none is
\* ever stepped or randomized.
C5_NoEngineWithoutCells ==
    \A e \in Engines :
        pc[e] \in {"idle", "update", "crashed"} =>
            gridWidth[e] >= 1 /\ gridHeight[e] >= 1

\* C6: for width >= 1 and height >= 1, every normalized coordinate update()
\* indexes a grid with lies in [0, width) x [0, height).
C6_NeighbourReadsInRange ==
    \A e \in Engines :
        (nIdx[e] # <<>> /\ gridWidth[e] >= 1 /\ gridHeight[e] >= 1) =>
            \A k \in 1..8 : InRange(e, nIdx[e][k])

\* C7: after randomInitialization(), whatever the buffers held, every cell is
\* alive iff its draw was 0, both buffers are identical, and with sparseness
\* 0 every cell is alive.
C7_RandomizeOverwrites ==
    \A e \in Engines :
        (pc[e] = "idle" /\ lastOp[e] = "randomize") =>
            /\ \A x \in 0..(gridWidth[e] - 1), y \in 0..(gridHeight[e] - 1) :
                /\ gen[x * gridHeight[e] + y + 1] \in 0..sparseness
                /\ newGrid[e][x][y] = 1 <=> gen[x * gridHeight[e] + y + 1] = 0
                /\ newGrid[e][x][y] \in {0, 1}
                /\ sparseness = 0 => newGrid[e][x][y] = 1
            /\ oldGrid[e] = newGrid[e]

\* C7 witness: a randomInitialization() after at least one update(), which
\* replaced a live cell of the generation it found by a dead one.
C7_Witness ==
    /\ pc[1] = "idle"
    /\ lastOp[1] = "randomize"
    /\ \E c \in DOMAIN written[1] : written[1][c] = 1 /\ newGrid[1][c[1]][c[2]] = 0

\* C8: two engines with the same dimensions and the same stream hold
\* identical current grids after randomize and after equally many steps.
C8_Deterministic ==
    \A e1 \in Engines, e2 \in Engines :
        (/\ pc[e1] = "idle" /\ pc[e2] = "idle"
         /\ seeded[e1] /\ seeded[e2]
         /\ steps[e1] = steps[e2]) =>
            fullGrid(e1) = fullGrid(e2)

\* C9: a 2x2 block off the border of a grid of size >= 4x4 is a still life:
\* fullGrid() is the seeded block grid after every number of steps.
C9_BlockIsStill ==
    \A e \in Engines :
        (pc[e] = "idle" /\ seeded[e]) =>
            /\ fullGrid(e) = SeedGrid(gridWidth[e], gridHeight[e])
            /\ \E bx \in 1..(gridWidth[e] - 3), by \in 1..(gridHeight[e] - 3) :
                fullGrid(e) = GridOfCells(BlockCells(bx, by), gridWidth[e], gridHeight[e])

\* C9 witness: the block after at least two completed steps.
C9_Witness ==
    /\ StepDone(1)
    /\ seeded[1]
    /\ steps[1] >= 2
    /\ gridWidth[1] >= 4 /\ gridHeight[1] >= 4
    /\ fullGrid(1) = SeedGrid(gridWidth[1], gridHeight[1])

\* C10: a blinker centred >= 2 cells from every edge of a grid >= 5x5 turns
\* into the perpendicular line through the same centre after every odd
\* number of steps and is restored after every even number.
C10_BlinkerOscillates ==
    \A e \in Engines :
        (pc[e] = "idle" /\ seeded[e]) =>
            \E cx \in 2..(gridWidth[e] - 3), cy \in 2..(gridHeight[e] - 3), o \in {"h", "v"} :
                LET seed == GridOfCells(BlinkerCells(cx, cy, o), gridWidth[e], gridHeight[e])
                    turned == GridOfCells(BlinkerCells(cx, cy, Perpendicular(o)),
                                          gridWidth[e], gridHeight[e])
                IN  /\ seed = SeedGrid(gridWidth[e], gridHeight[e])
                    /\ seed # turned
                    /\ steps[e] % 2 = 0 => fullGrid(e) = seed
                    /\ steps[e] % 2 = 1 => fullGrid(e) = turned

\* C10 witness: three steps done, the grid is the turned line, not the seed.
C10_Witness ==
    /\ StepDone(1)
    /\ seeded[1]
    /\ steps[1] = 3
    /\ fullGrid(1) # SeedGrid(gridWidth[1], gridHeight[1])

\* ---------------------------------------------------------------------
\* The driving loop of main, for one engine and a display.

MaxMainDim == 2
MaxMainCells == 4
MaxMainFrames == 2
MaxQueue == 2

\* #define SPARSENESS_DEFAULT 2
SPARSENESS_DEFAULT == 2

\* The SDL events told apart by pollEvents: the window's close request, a
\* press of the R key, a press of another key, an event of another type.
Events == {"SDL_QUIT", "SDLK_r", "SDLK_other", "SDL_MOUSEMOTION"}

CallbackType == {"CALLBACK_NOACTION", "CALLBACK_QUIT", "CALLBACK_RESET"}

RECURSIVE PollResult_drain(_)
\* Faulty variant of PollResult: the loop goes on to the end of the queue and
\* returns the last control event it met.
PollResult_drain(q) ==
    IF q = <<>> THEN [ret |-> "CALLBACK_NOACTION", rest |-> <<>>]
    ELSE LET r == PollResult_drain(Tail(q))
         IN  IF r.ret # "CALLBACK_NOACTION" THEN r
             ELSE IF Head(q) = "SDL_QUIT" THEN [ret |-> "CALLBACK_QUIT", rest |-> <<>>]
             ELSE IF Head(q) = "SDLK_r" THEN [ret |-> "CALLBACK_RESET", rest |-> <<>>]
             ELSE r

RECURSIVE PollResult(_)
\* pollEvents() on the pending events q: SDL_PollEvent takes the events one by
\* one off the front; the first SDL_QUIT or R press ends the call, any other
\* event is dropped; an empty queue ends the loop.
PollResult(q) ==
    IF q = <<>> THEN [ret |-> "CALLBACK_NOACTION", rest |-> <<>>]
    ELSE IF Head(q) = "SDL_QUIT" THEN [ret |-> "CALLBACK_QUIT", rest |-> Tail(q)]
    ELSE IF Head(q) = "SDLK_r" THEN [ret |-> "CALLBACK_RESET", rest |-> Tail(q)]
    ELSE PollResult(Tail(q))

\* SDL_PollEvent first pumps the input gathered since the last poll into the
\* queue: the events of the user and the window system reach it there.
Enqueue(ev) ==
    /\ mpc = "poll"
    /\ Len(queue) < MaxQueue
    /\ queue' = Append(queue, ev)
    /\ UNCHANGED <<inputs, pc, gridWidth, gridHeight, newGrid, oldGrid, i, j, locals,
                   before, written, steps, lastOp, seeded, firstGrid, reads,
                   mpc, signal, frameOps>>

\* Conway<char> conway(gridWidth, gridHeight);
MainConstruct ==
    /\ mpc = "construct"
    /\ Construct(1)
    /\ mpc' = "seed"
    /\ UNCHANGED <<queue, signal, frameOps>>

\* conway.randomInitialization(sparseness); before the loop.
MainSeed ==
    /\ mpc = "seed"
    /\ randomInitialization(1)
    /\ mpc' = "poll"
    /\ UNCHANGED <<queue, signal, frameOps>>

\* switch(screen->pollEvents()): the call, at the top of an iteration.
pollEvents ==
    /\ mpc = "poll"
    /\ signal' = PollResult(queue).ret
    /\ queue' = PollResult(queue).rest
    /\ frameOps' = <<>>
    /\ mpc' = "switch"
    /\ UNCHANGED <<inputs, pc, gridWidth, gridHeight, newGrid, oldGrid, i, j, locals,
                   before, written, steps, lastOp, seeded, firstGrid, reads>>

\* Faulty variant of MainQuit: the case leaves the switch only, not the loop.
MainQuit_break ==
    /\ mpc = "switch"
    /\ signal = "CALLBACK_QUIT"
    /\ mpc' = "update"
    /\ UNCHANGED <<inputs, pc, gridWidth, gridHeight, newGrid, oldGrid, i, j, locals,
                   before, written, steps, lastOp, seeded, firstGrid, reads,
                   queue, signal, frameOps>>

\* case CALLBACK_QUIT: goto exitapp;
MainQuit ==
    /\ mpc = "switch"
    /\ signal = "CALLBACK_QUIT"
    /\ mpc' = "exit"
    /\ UNCHANGED <<inputs, pc, gridWidth, gridHeight, newGrid, oldGrid, i, j, locals,
                   before, written, steps, lastOp, seeded, firstGrid, reads,
                   queue, signal, frameOps>>

\* case CALLBACK_RESET: conway.randomInitialization(sparseness); break;
MainReset ==
    /\ mpc = "switch"
    /\ signal = "CALLBACK_RESET"
    /\ randomInitialization(1)
    /\ frameOps' = Append(frameOps, "randomize")
    /\ mpc' = "update"
    /\ UNCHANGED <<queue, signal>>

\* case CALLBACK_NOACTION: break;
MainNoAction ==
    /\ mpc = "switch"
    /\ signal = "CALLBACK_NOACTION"
    /\ mpc' = "update"
    /\ UNCHANGED <<inputs, pc, gridWidth, gridHeight, newGrid, oldGrid, i, j, locals,
                   before, written, steps, lastOp, seeded, firstGrid, reads,
                   queue, signal, frameOps>>

\* conway.update(); in its three parts.
MainUpdateBegin ==
    /\ mpc = "update"
    /\ UpdateBegin(1)
    /\ UNCHANGED mainvars

MainUpdateCell ==
    /\ mpc = "update"
    /\ UpdateCell(1)
    /\ UNCHANGED mainvars

MainUpdateEnd ==
    /\ mpc = "update"
    /\ UpdateEnd(1)
    /\ frameOps' = Append(frameOps, "update")
    /\ mpc' = "render"
    /\ UNCHANGED <<queue, signal>>

\* screen->clear(); screen->drawGrid(conway.fullGrid(), ...); screen->present();
\* setWindowTitle(...); SDL_Delay(frame_time); and back to the top of the loop.
MainRender ==
    /\ mpc = "render"
    /\ drawGrid(1)
    /\ frameOps' = Append(frameOps, "render")
    /\ mpc' = "poll"
    /\ UNCHANGED <<queue, signal>>

NextMain ==
    \/ \E ev \in Events : Enqueue(ev)
    \/ MainConstruct
    \/ MainSeed
    \/ pollEvents
    \/ MainQuit
    \/ MainReset
    \/ MainNoAction
    \/ MainUpdateBegin
    \/ MainUpdateCell
    \/ MainUpdateEnd
    \/ MainRender

\* main with grid dimensions of at least 1 and the default sparseness, at the
\* construction of the engine; the window exists and no event is pending.
InitMain ==
    \E w \in 1..MaxMainDim, h \in 1..MaxMainDim :
        /\ Cells(w, h) <= MaxMainCells
        /\ \E g \in [1..Cells(w, h) -> Draws(SPARSENESS_DEFAULT)] :
            /\ EngineInit({1}, w, h, SPARSENESS_DEFAULT, g, MaxMainFrames)
            /\ mpc = "construct"
            /\ queue = <<>>
            /\ signal = "none"
            /\ frameOps = <<>>

SpecMain == InitMain /\ [][NextMain]_vars

\* C11: on a 1 x 1 grid the constructor succeeds and all 8 neighbour offsets
\* resolve to the cell itself: a live cell counts 8 live neighbours and is dead
\* after step(), a dead cell counts 0 and stays dead.
C11_OneByOne ==
    \A e \in Engines :
        (width = 1 /\ height = 1) =>
            /\ pc[e] # "failed"
            /\ (pc[e] = "update" /\ written[e] # <<>>) \/ StepDone(e) =>
                /\ \A k \in 1..8 : nIdx[e][k] = <<0, 0>>
                /\ numLiveNeighbors[e] = (IF isAlive[e] # 0 THEN 8 ELSE 0)
                /\ written[e][<<0, 0>>] = 0
            /\ StepDone(e) => fullGrid(e)[0][0] = 0

\* The buffer g has exactly w x h cells, each holding 0 or 1.
WellFormed(g, w, h) ==
    /\ DOMAIN g = 0..(w - 1)
    /\ \A x \in 0..(w - 1) :
        /\ DOMAIN g[x] = 0..(h - 1)
        /\ \A y \in 0..(h - 1) : g[x][y] \in {0, 1}

\* C14: in every state of a constructed engine both buffers have exactly
\* width x height cells, each holding 0 or 1, and the dimensions are the
\* constructor's arguments; right after construction every cell of both is 0.
C14_BuffersWellFormed ==
    \A e \in Engines :
        pc[e] \in {"idle", "update"} =>
            /\ gridWidth[e] = width
            /\ gridHeight[e] = height
            /\ WellFormed(newGrid[e], width, height)
            /\ WellFormed(oldGrid[e], width, height)
            /\ (pc[e] = "idle" /\ lastOp[e] = "construct") =>
                \A x \in 0..(width - 1), y \in 0..(height - 1) :
                    newGrid[e][x][y] = 0 /\ oldGrid[e][x][y] = 0

\* C14 witness: a second update() is under way on a grid of at least 2 x 2
\* cells, and has written a live cell while the other buffer has a live cell.
C14_Witness ==
    /\ pc[1] = "update"
    /\ steps[1] >= 1
    /\ width >= 2 /\ height >= 2
    /\ \E c \in DOMAIN written[1] : written[1][c] = 1
    /\ \E x \in 0..(width - 1), y \in 0..(height - 1) : oldGrid[1][x][y] = 1

\* C15: with n the number of the 8 neighbour look-ups that returned alive,
\* step() writes alive exactly when the cell is alive and n is 2 or 3, or the
\* cell is dead and n is 3, and dead otherwise; every cell is written once:
\* the cells written so far are the loop's iterations so far, one each.
C15_RulePerCell ==
    \A e \in Engines :
        /\ (pc[e] = "update" /\ written[e] # <<>>) \/ StepDone(e) =>
            /\ isAlive[e] = before[e][idx[e][1]][idx[e][2]]
            /\ numLiveNeighbors[e] \in 0..8
            /\ written[e][idx[e]] = 1 <=>
                   \/ isAlive[e] = 1 /\ numLiveNeighbors[e] \in {2, 3}
                   \/ isAlive[e] = 0 /\ numLiveNeighbors[e] = 3
            /\ written[e][idx[e]] \in {0, 1}
            /\ newGrid[e][idx[e][1]][idx[e][2]] = written[e][idx[e]]
        /\ pc[e] = "update" =>
            /\ DOMAIN written[e] =
                   {c \in CellSet(gridWidth[e], gridHeight[e]) :
                       c[1] * gridHeight[e] + c[2] < i[e] * gridHeight[e] + j[e]}
            /\ idx[e] \in DOMAIN written[e] =>
                   Cardinality(DOMAIN written[e]) = i[e] * gridHeight[e] + j[e]
        /\ StepDone(e) => DOMAIN written[e] = CellSet(gridWidth[e], gridHeight[e])

\* C15 witness: an update() has just written a birth, and an earlier iteration
\* of the same update() wrote the death of a live cell.
C15_Witness ==
    /\ pc[1] = "update"
    /\ written[1] # <<>>
    /\ isAlive[1] = 0 /\ numLiveNeighbors[1] = 3 /\ written[1][idx[1]] = 1
    /\ \E c \in DOMAIN written[1] : before[1][c[1]][c[2]] = 1 /\ written[1][c] = 0

\* C16: the two buffers alternate roles. After every completed step() the
\* write target holds the new generation in all of its cells (none left from
\* an older generation) and the other buffer holds the generation fullGrid()
\* showed before the step; the next step() reads the buffer this step wrote
\* and writes the buffer this step read.
C16_RolesAlternate ==
    [][\A e \in Engines :
          /\ (pc[e] = "update" /\ pc'[e] = "idle") =>
                /\ oldGrid'[e] = before[e]
                /\ DOMAIN written[e] = CellSet(gridWidth[e], gridHeight[e])
                /\ \A c \in CellSet(gridWidth[e], gridHeight[e]) :
                       newGrid'[e][c[1]][c[2]] = written[e][c]
          /\ (pc[e] = "idle" /\ pc'[e] = "update") =>
                /\ oldGrid'[e] = newGrid[e]
                /\ newGrid'[e] = oldGrid[e]
          /\ (pc[e] = "update" /\ pc'[e] = "update") =>
                /\ oldGrid'[e] = oldGrid[e]
                /\ oldGrid[e] = before[e]
      ]_vars

\* C16 witness: a second step() has completed on a grid of at least 2 x 2
\* cells, with a generation that differs from the one it read, which itself
\* had been written by the first step().
C16_Witness ==
    /\ StepDone(1)
    /\ steps[1] = 2
    /\ width >= 2 /\ height >= 2
    /\ oldGrid[1] = before[1]
    /\ newGrid[1] # oldGrid[1]

\* C17: randomInitialization() starts its random source again on every call:
\* every call produces the grid the engine's first call produced.
C17_RandomizeRepeats ==
    \A e \in Engines :
        (pc[e] = "idle" /\ lastOp[e] = "randomize") =>
            /\ seeded[e]
            /\ fullGrid(e) = firstGrid[e]
            /\ oldGrid[e] = firstGrid[e]

\* C17 witness: a randomInitialization() after an update() that had moved the
\* grid away from the first generation 0.
C17_Witness ==
    /\ pc[1] = "idle"
    /\ lastOp[1] = "randomize"
    /\ written[1] # <<>>
    /\ \E c \in DOMAIN written[1] : written[1][c] # firstGrid[1][c[1]][c[2]]
    /\ \E x \in 0..(width - 1), y \in 0..(height - 1) :
           \E x2 \in 0..(width - 1), y2 \in 0..(height - 1) :
               firstGrid[1][x][y] # firstGrid[1][x2][y2]

\* C13: reading is free of side effects. A step in which fullGrid() hands out
\* the grid changes neither buffer nor which buffer is which nor anything
\* else of the engine, so a following step() starts from the state it would
\* have started from without the read; the content handed out is the current
\* grid, and a second call right after the first hands out the same content.
C13_ReadHasNoSideEffect ==
    [][\A e \in Engines :
          (viewed'[e] /\ pc[e] = "idle" /\ pc'[e] = "idle") =>
              /\ newGrid'[e] = newGrid[e]
              /\ oldGrid'[e] = oldGrid[e]
              /\ gridWidth'[e] = gridWidth[e]
              /\ gridHeight'[e] = gridHeight[e]
              /\ view'[e] = newGrid[e]
              /\ viewed[e] => view'[e] = view[e]
      ]_vars

\* C13 witness: the grid of a completed step() with live and dead cells has
\* been handed out.
C13_Witness ==
    /\ StepDone(1)
    /\ viewed[1]
    /\ view[1] = newGrid[1]
    /\ newGrid[1] # oldGrid[1]
    /\ \E c \in DOMAIN written[1] : written[1][c] = 1

\* C12: in every iteration of the loop whose polled signal is not quit, exactly
\* one step() runs after the poll and before the render, and the render reads
\* the grid this completed step produced; on reset, randomize runs after the
\* poll and before that step, which then starts from generation 0; on quit,
\* no step, randomize or render follows the poll.
C12_FrameOrder ==
    LET pre == IF signal = "CALLBACK_RESET" THEN <<"randomize">> ELSE <<>>
    IN  /\ mpc = "switch" => frameOps = <<>>
        /\ mpc = "update" =>
            /\ signal \in {"CALLBACK_RESET", "CALLBACK_NOACTION"}
            /\ frameOps = pre
            /\ (signal = "CALLBACK_RESET" /\ pc[1] = "idle") =>
                   lastOp[1] = "randomize" /\ fullGrid(1) = firstGrid[1]
        /\ mpc = "render" =>
            /\ signal \in {"CALLBACK_RESET", "CALLBACK_NOACTION"}
            /\ frameOps = pre \o <<"update">>
            /\ pc[1] = "idle" /\ lastOp[1] = "update"
            /\ signal = "CALLBACK_RESET" => before[1] = firstGrid[1] /\ steps[1] = 1
        /\ (mpc = "poll" /\ frameOps # <<>>) =>
            /\ signal \in {"CALLBACK_RESET", "CALLBACK_NOACTION"}
            /\ frameOps = pre \o <<"update", "render">>
            /\ pc[1] = "idle" /\ lastOp[1] = "update"
            /\ viewed[1]
            /\ DOMAIN written[1] = CellSet(gridWidth[1], gridHeight[1])
            /\ \A c \in DOMAIN written[1] : view[1][c[1]][c[2]] = written[1][c]
        /\ signal = "CALLBACK_QUIT" =>
            /\ mpc \in {"switch", "exit"}
            /\ frameOps = <<>>
        /\ mpc = "exit" => signal = "CALLBACK_QUIT"

\* C12 witness: an iteration that polled a reset has finished: randomize, one
\* step and the render ran in this order, on a grid of at least 2 x 2 cells
\* whose step wrote a live and a dead cell.
C12_Witness ==
    /\ mpc = "poll"
    /\ signal = "CALLBACK_RESET"
    /\ frameOps = <<"randomize", "update", "render">>
    /\ width >= 2 /\ height >= 2
    /\ \E c \in DOMAIN written[1] : written[1][c] = 1
    /\ \E c \in DOMAIN written[1] : written[1][c] = 0

\* The queue q holds a close request.
HasQuit(q) == \E k \in 1..Len(q) : q[k] = "SDL_QUIT"

\* The number of R presses in front of the first close request of q.
RsBeforeQuit(q) ==
    LET first == CHOOSE k \in 1..Len(q) :
                     q[k] = "SDL_QUIT" /\ \A m \in 1..(k - 1) : q[m] # "SDL_QUIT"
    IN  Cardinality({m \in 1..(first - 1) : q[m] = "SDLK_r"})

\* C18: each poll returns at most one control signal and removes from the
\* queue every event up to and including the one it returns. So with a close
\* request behind k pending R presses a poll returns quit if k = 0, and
\* otherwise returns reset and leaves the close request behind k - 1 R
\* presses: the (k+1)-th poll at the latest returns quit. A returned quit
\* leaves the loop for good; a returned reset is handled in its own frame.
C18_PollInQueueOrder ==
    [][/\ (mpc = "poll" /\ mpc' # "poll") =>
            /\ mpc' = "switch"
            /\ signal' \in CallbackType
            /\ \E n \in 0..Len(queue) :
                /\ queue' = SubSeq(queue, n + 1, Len(queue))
                /\ \A k \in 1..(n - 1) : queue[k] \notin {"SDL_QUIT", "SDLK_r"}
                /\ signal' = "CALLBACK_QUIT" => n >= 1 /\ queue[n] = "SDL_QUIT"
                /\ signal' = "CALLBACK_RESET" => n >= 1 /\ queue[n] = "SDLK_r"
                /\ signal' = "CALLBACK_NOACTION" =>
                       /\ n = Len(queue)
                       /\ \A k \in 1..n : queue[k] \notin {"SDL_QUIT", "SDLK_r"}
            /\ HasQuit(queue) =>
                IF RsBeforeQuit(queue) = 0
                THEN signal' = "CALLBACK_QUIT"
                ELSE /\ signal' = "CALLBACK_RESET"
                     /\ HasQuit(queue')
                     /\ RsBeforeQuit(queue') = RsBeforeQuit(queue) - 1
       /\ (mpc = "switch" /\ signal = "CALLBACK_QUIT" /\ mpc' # "switch") =>
            mpc' = "exit"
       /\ (mpc = "switch" /\ signal = "CALLBACK_RESET" /\ mpc' # "switch") =>
            /\ mpc' = "update"
            /\ lastOp'[1] = "randomize"
       /\ mpc = "exit" =>
            /\ mpc' = "exit"
            /\ newGrid' = newGrid /\ oldGrid' = oldGrid /\ view' = view
      ]_vars

\* C18 witness: the loop has left on a quit polled in the frame after a frame
\* that handled a reset: the engine was re-seeded and stepped once since.
C18_Witness ==
    /\ mpc = "exit"
    /\ signal = "CALLBACK_QUIT"
    /\ seeded[1]
    /\ steps[1] = 1
    /\ viewed[1]
    /\ before[1] = firstGrid[1]
    /\ written[1] # <<>>

====
